---------------------------- MODULE Spec2Model ----------------------------
(***************************************************************************)
(* Model of scrape_jordan_khutbah.py: the listing parser, the title        *)
(* extractor, the filename sanitizer, the cover composer, the document     *)
(* merger and the orchestrator loop of main.                               *)
(*                                                                         *)
(* Strings are sequences of Unicode code points (Python str), so that the  *)
(* character classes of the source's regular expressions (U+0600-U+06FF,  *)
(* \s, \d, the forbidden filename characters) are what the source tests.   *)
(***************************************************************************)
EXTENDS Integers, Sequences, FiniteSets, TLC

VARIABLES
    \* sanitize_filename_component: its arguments, its result, the result of
    \* applying it to its own result, and the position of the caller
    san_s, san_max, san_out, san_again, san_pc,
    \* extract_title_from_pdf: the PDF (whether pdfplumber can read it, the
    \* text of its first page), the result, and the position of the caller
    pdf_status, page_text, title_out, title_pc,
    \* parse_listing_for_year: the href values of the page's <a> elements in
    \* document order, the target year, the result, the caller's position
    hrefs, year, pairs, listing_pc,
    \* make_cover_pdf: whether fonts/Amiri-Regular.ttf exists, HAVE_ARABIC_TOOLS,
    \* the title and the source URL (a character and how often it is repeated),
    \* the position in the function (cov_pc, the field cov_k, the line cov_i),
    \* whether v was replaced by the placeholder (cov_sub), the cursor y, the
    \* page, and what was drawn on the canvas so far
    font_exists, have_tools, cov_title, cov_url,
    cov_pc, cov_k, cov_i, cov_sub, cov_y, cov_page, cov_drawn,
    \* main: the position in the loop over pairs (m_pc, the entry m_i), the
    \* locals of the current entry (the downloaded original m_doc, title,
    \* title_clean, the cover's pages m_cover, the pages written to out_pdf
    \* m_out, total_pages m_total), manifest_rows, and manifest.csv
    m_pc, m_i, m_doc, m_title, m_title_clean, m_cover, m_out, m_total,
    manifest_rows, manifest_csv

san_vars == <<san_s, san_max, san_out, san_again, san_pc>>
title_vars == <<pdf_status, page_text, title_out, title_pc>>
listing_vars == <<hrefs, year, pairs, listing_pc>>
cover_in == <<font_exists, have_tools, cov_title, cov_url>>
cover_vars == <<cover_in, cov_pc, cov_k, cov_i, cov_sub, cov_y, cov_page, cov_drawn>>

main_vars == <<m_pc, m_i, m_doc, m_title, m_title_clean, m_cover, m_out, m_total,
               manifest_rows, manifest_csv>>

vars == <<san_vars, title_vars, listing_vars, cover_vars, main_vars>>

(***************************************************************************)
(* Bounds of the model.                                                    *)
(***************************************************************************)
MaxSanLen == 5      \* longest input string given to the sanitizer
MaxSanMax == 5      \* largest max_len given to the sanitizer
MaxTokens == 3      \* a page text is built from at most this many pieces
MaxLinks == 3       \* a listing page holds at most this many <a href> elements
MaxUrlLines == 40   \* a source URL fills at most this many lines of 95 characters
MaxEntries == 3     \* the listing page of a run of main holds at most this many links
MaxCoverPages == 2  \* a cover has at most this many pages

(***************************************************************************)
(* Characters and the str methods the source uses.                         *)
(***************************************************************************)
\* str.isspace / regex \s on str: the Unicode whitespace code points.
WhiteSpace ==
    {9, 10, 11, 12, 13, 28, 29, 30, 31, 32, 133, 160, 5760} \cup (8192..8202)
        \cup {8232, 8233, 8239, 8287, 12288}

IsSpace(c) == c \in WhiteSpace

\* ARABIC_RE = [U+0600-U+06FF]
IsArabicChar(c) == c >= 1536 /\ c <= 1791

\* contains_arabic(s): ARABIC_RE.search(s or "")
contains_arabic(s) == \E i \in 1..Len(s) : IsArabicChar(s[i])

\* None, among values that are otherwise strings: no code point is negative.
None == <<-1>>

\* First index >= i of s whose character is not in cs (Len(s)+1 when none).
SkipLeft(s, i, cs) ==
    IF i > Len(s) THEN Len(s) + 1
    ELSE CHOOSE j \in i..(Len(s) + 1) :
             /\ j = Len(s) + 1 \/ s[j] \notin cs
             /\ \A k \in i..(j - 1) : s[k] \in cs

\* Last index <= i of s whose character is not in cs (0 when none).
SkipRight(s, i, cs) ==
    IF i < 1 THEN 0
    ELSE CHOOSE j \in 0..i :
             /\ j = 0 \/ s[j] \notin cs
             /\ \A k \in (j + 1)..i : s[k] \in cs

\* First index >= i of s whose character is in cs (Len(s)+1 when none).
ScanTo(s, i, cs) ==
    IF i > Len(s) THEN Len(s) + 1
    ELSE CHOOSE j \in i..(Len(s) + 1) :
             /\ j = Len(s) + 1 \/ s[j] \in cs
             /\ \A k \in i..(j - 1) : s[k] \notin cs

\* s.strip(cs)
StripChars(s, cs) ==
    LET a == SkipLeft(s, 1, cs)
        b == SkipRight(s, Len(s), cs)
    IN  IF a > b THEN <<>> ELSE SubSeq(s, a, b)

\* s.strip()
Strip(s) == StripChars(s, WhiteSpace)

\* s.rstrip()
RStrip(s) == SubSeq(s, 1, SkipRight(s, Len(s), WhiteSpace))

\* re.sub(r"\s+", " ", s): every maximal run of whitespace becomes one space.
RECURSIVE CollapseFrom(_, _)
CollapseFrom(s, i) ==
    IF i > Len(s) THEN <<>>
    ELSE IF IsSpace(s[i])
         THEN <<32>> \o CollapseFrom(s, SkipLeft(s, i, WhiteSpace))
         ELSE LET j == ScanTo(s, i, WhiteSpace)
              IN  SubSeq(s, i, j - 1) \o CollapseFrom(s, j)

CollapseWhitespace(s) == CollapseFrom(s, 1)

\* s[:n] for n >= 0
Prefix(s, n) == SubSeq(s, 1, IF n < Len(s) THEN n ELSE Len(s))

(***************************************************************************)
(* sanitize_filename_component                                             *)
(***************************************************************************)
\* The character class [\\/:"*?<>|] : \ / : " * ? < > |
ForbiddenChars == {92, 47, 58, 34, 42, 63, 60, 62, 124}

\* "untitled"
Untitled == <<117, 110, 116, 105, 116, 108, 101, 100>>

\* Faulty variant: the forbidden characters are left in place.
RemoveForbidden_Kept(s) == s

\* re.sub(r'[\\/:"*?<>|]+', "", s)
RemoveForbidden(s) == SelectSeq(s, LAMBDA c : c \notin ForbiddenChars)

\* max_len: int = 90
DefaultMaxLen == 90

\* if len(s) > max_len: s = s[:max_len].rstrip()
Truncate(s, max_len) ==
    IF Len(s) > max_len THEN RStrip(Prefix(s, max_len)) ELSE s

sanitize_filename_component(s, max_len) ==
    LET s1 == Strip(s)
        s2 == CollapseWhitespace(s1)
        s3 == RemoveForbidden(s2)
        s4 == StripChars(s3, {32, 46})
        s5 == Truncate(s4, max_len)
    IN  IF s5 = <<>> THEN Untitled ELSE s5

\* Alphabet of the sanitizer's inputs: a, space, tab, '.', '/'.
SanAlphabet == {97, 32, 9, 46, 47}

RECURSIVE StringsUpTo(_, _)
StringsUpTo(alphabet, n) ==
    IF n = 0 THEN {<<>>}
    ELSE LET shorter == StringsUpTo(alphabet, n - 1)
         IN  shorter \cup {Append(s, c) : s \in shorter, c \in alphabet}

TitleIdle ==
    /\ pdf_status = "ok"
    /\ page_text = <<>>
    /\ title_out = None
    /\ title_pc = "idle"

NoDoc == [status |-> "none", text |-> <<>>, pages |-> <<>>]

MainIdle ==
    /\ m_pc = "idle"
    /\ m_i = 0
    /\ m_doc = NoDoc
    /\ m_title = None
    /\ m_title_clean = None
    /\ m_cover = <<>>
    /\ m_out = <<>>
    /\ m_total = 0
    /\ manifest_rows = <<>>
    /\ manifest_csv = None

CoverIdle ==
    /\ font_exists = FALSE
    /\ have_tools = FALSE
    /\ cov_title = [ch |-> 97, n |-> 1]
    /\ cov_url = [ch |-> 97, n |-> 1]
    /\ cov_pc = "idle"
    /\ cov_k = 0
    /\ cov_i = 0
    /\ cov_sub = FALSE
    /\ cov_y = 0
    /\ cov_page = 0
    /\ cov_drawn = <<>>

ListingIdle ==
    /\ hrefs = <<>>
    /\ year = 0
    /\ pairs = <<>>
    /\ listing_pc = "idle"

SanIdle ==
    /\ san_s = <<>>
    /\ san_max = 0
    /\ san_out = None
    /\ san_again = None
    /\ san_pc = "idle"

SanInit ==
    /\ san_s \in StringsUpTo(SanAlphabet, MaxSanLen)
    /\ san_max \in (0..MaxSanMax) \cup {DefaultMaxLen}
    /\ san_out = None
    /\ san_again = None
    /\ san_pc = "call"
    /\ TitleIdle
    /\ ListingIdle
    /\ CoverIdle
    /\ MainIdle

\* title_clean = sanitize_filename_component(title)
SanitizeCall ==
    /\ san_pc = "call"
    /\ san_out' = sanitize_filename_component(san_s, san_max)
    /\ san_pc' = "done"
    /\ UNCHANGED <<san_s, san_max, san_again, title_vars, listing_vars, cover_vars, main_vars>>

\* The sanitizer applied to its own output.
SanitizeAgain ==
    /\ san_pc = "done"
    /\ san_again' = sanitize_filename_component(san_out, san_max)
    /\ san_pc' = "again"
    /\ UNCHANGED <<san_s, san_max, san_out, title_vars, listing_vars, cover_vars, main_vars>>

SanNext == SanitizeCall \/ SanitizeAgain

SpecSanitize == SanInit /\ [][SanNext]_vars

\* Every character of s is one the sanitizer trims or strips away.
CollapsesToEmpty(s) ==
    \A i \in 1..Len(s) : s[i] \in WhiteSpace \cup ForbiddenChars \cup {46}

NoForbiddenChar(s) == \A i \in 1..Len(s) : s[i] \notin ForbiddenChars

\* C5 (as stated): for every s and max_len >= 0 the result holds no forbidden
\* character, is at most max_len long, and is "untitled" when s is empty or
\* collapses to empty.
C5_Original ==
    san_pc = "done" =>
        /\ NoForbiddenChar(san_out)
        /\ Len(san_out) <= san_max
        /\ (CollapsesToEmpty(san_s) => san_out = Untitled)

\* C5 (amended): the result holds no forbidden character; it is at most
\* max_len long unless it is the placeholder "untitled", which is returned
\* whatever max_len is; and it is "untitled" when s is empty or collapses to
\* empty, or when max_len is 0.
C5_SanitizeSafe ==
    san_pc = "done" =>
        /\ NoForbiddenChar(san_out)
        /\ (Len(san_out) <= san_max \/ san_out = Untitled)
        /\ (CollapsesToEmpty(san_s) \/ san_max = 0 => san_out = Untitled)

\* C5 witness: an input with a forbidden character that was cut to max_len.
C5_Witness ==
    /\ san_pc = "done"
    /\ ~NoForbiddenChar(san_s)
    /\ san_out # Untitled
    /\ Len(san_out) = san_max
    /\ Len(san_s) > san_max + 1

\* C9: the result is in normal form: no two adjacent whitespace characters, no
\* space or dot at either end, and sanitizing it again returns it unchanged
\* (stated here for the results that are not the placeholder "untitled").
C9_NormalForm ==
    san_pc = "again" /\ san_out # Untitled =>
        /\ \A i \in 1..(Len(san_out) - 1) :
               ~(IsSpace(san_out[i]) /\ IsSpace(san_out[i + 1]))
        /\ san_out[1] \notin {32, 46}
        /\ san_out[Len(san_out)] \notin {32, 46}
        /\ san_again = san_out

(***************************************************************************)
(* extract_title_from_pdf                                                  *)
(***************************************************************************)
LParen == 40
RParen == 41

\* The bounds {3,200} of the candidate group and the title thresholds.
CandMin == 3
CandMax == 200
MinTitleLen == 8
TailLen == 300
MaxTitleLen == 120

\* The marker word (U+0639 U+0646 U+0648 U+0627 U+0646), "title".
Marker == <<1593, 1606, 1608, 1575, 1606>>
\* The three words that follow it in the header phrase.
Word2 == <<1582, 1591, 1576, 1577>>
Word3 == <<1575, 1604, 1580, 1605, 1593, 1577>>
Word4 == <<1575, 1604, 1605, 1608, 1581, 1583>>

\* tail.strip(":-<en dash><em dash> ")
TitlePunct == {58, 45, 8211, 8212, 32}

\* " ".join(text.split())
JoinSplit(text) == CollapseWhitespace(Strip(text))

\* Does pat occur in s at index i?
OccursAt(s, pat, i) ==
    i >= 1 /\ i + Len(pat) - 1 <= Len(s) /\ SubSeq(s, i, i + Len(pat) - 1) = pat

\* s.find(pat), 1-based; 0 when pat does not occur.
Find(s, pat) ==
    LET at == {i \in 1..Len(s) : OccursAt(s, pat, i)}
    IN  IF at = {} THEN 0 ELSE CHOOSE i \in at : \A j \in at : i <= j

\* One match of \)\s*([^()]{3,200}?)\s*\( starting at the ')' at index p:
\* [found, group, end].  The text between the ')' and the next parenthesis
\* is split as \s* (greedy: the longest run first), the group (lazy: the
\* shortest first) and \s*; the first split the backtracking reaches wins.
MatchCandidateAt(s, p) ==
    LET q   == ScanTo(s, p + 1, {LParen, RParen})
        seg == SubSeq(s, p + 1, q - 1)
        n   == Len(seg)
        lead == SkipLeft(seg, 1, WhiteSpace) - 1
        splits == {ag \in (0..lead) \X (CandMin..CandMax) :
                      /\ ag[1] + ag[2] <= n
                      /\ SkipLeft(seg, ag[1] + ag[2] + 1, WhiteSpace) = n + 1}
        best == CHOOSE ag \in splits :
                    \A o \in splits :
                        \/ ag[1] > o[1]
                        \/ (ag[1] = o[1] /\ ag[2] <= o[2])
    IN  IF q > Len(s) \/ s[q] # LParen \/ splits = {}
        THEN [found |-> FALSE, group |-> <<>>, end |-> p]
        ELSE [found |-> TRUE,
              group |-> SubSeq(seg, best[1] + 1, best[1] + best[2]),
              end |-> q]

\* re.findall(r"\)\s*([^()]{3,200}?)\s*\(", text): the groups of the
\* non-overlapping matches, left to right.
RECURSIVE FindAllFrom(_, _)
FindAllFrom(s, i) ==
    LET p == ScanTo(s, i, {RParen})
        m == MatchCandidateAt(s, p)
    IN  IF p > Len(s) THEN <<>>
        ELSE IF m.found THEN <<m.group>> \o FindAllFrom(s, m.end + 1)
        ELSE FindAllFrom(s, p + 1)

FindCandidates(text) == FindAllFrom(text, 1)

\* if re.search(r"[U+0600-U+06FF]", c2) or len(c2) >= 8
Qualifies(c2) == contains_arabic(c2) \/ Len(c2) >= MinTitleLen

\* Faulty variant: a candidate with Arabic is preferred to an earlier one without.
ChooseCandidate_ArabicFirst(candidates) ==
    LET ar == {i \in 1..Len(candidates) : contains_arabic(Strip(candidates[i]))}
        lg == {i \in 1..Len(candidates) : Len(Strip(candidates[i])) >= MinTitleLen}
        pick(S) == Strip(candidates[CHOOSE i \in S : \A j \in S : i <= j])
    IN  IF ar # {} THEN pick(ar) ELSE IF lg # {} THEN pick(lg) ELSE None

\* for c in candidates: c2 = c.strip(); if ...: return c2
\* (None: the loop ends without returning)
RECURSIVE ChooseFrom(_, _)
ChooseFrom(candidates, i) ==
    IF i > Len(candidates) THEN None
    ELSE LET c2 == Strip(candidates[i])
         IN  IF Qualifies(c2) THEN c2 ELSE ChooseFrom(candidates, i + 1)

ChooseCandidate(candidates) == ChooseFrom(candidates, 1)

\* The end of a match of Marker\s+Word2\s+Word3\s+Word4 starting at index i
\* of s, 0 when there is none.
MatchBoilerplate(s, i) ==
    LET e1 == i + Len(Marker)
        b2 == SkipLeft(s, e1, WhiteSpace)
        e2 == b2 + Len(Word2)
        b3 == SkipLeft(s, e2, WhiteSpace)
        e3 == b3 + Len(Word3)
        b4 == SkipLeft(s, e3, WhiteSpace)
    IN  IF /\ OccursAt(s, Marker, i)
           /\ b2 > e1 /\ OccursAt(s, Word2, b2)
           /\ b3 > e2 /\ OccursAt(s, Word3, b3)
           /\ b4 > e3 /\ OccursAt(s, Word4, b4)
        THEN b4 + Len(Word4) - 1
        ELSE 0

\* re.sub(<the header phrase>, "", tail): every occurrence is removed.
RECURSIVE RemoveBoilerplateFrom(_, _)
RemoveBoilerplateFrom(s, i) ==
    LET at == {j \in i..Len(s) : MatchBoilerplate(s, j) > 0}
        p  == CHOOSE j \in at : \A k \in at : j <= k
    IN  IF at = {} THEN SubSeq(s, i, Len(s))
        ELSE SubSeq(s, i, p - 1) \o RemoveBoilerplateFrom(s, MatchBoilerplate(s, p) + 1)

RemoveBoilerplate(s) == RemoveBoilerplateFrom(s, 1)

\* The fallback on the marker word: idx = text.find(marker) ... return tail[:120]
MarkerFallback(text) ==
    LET idx == Find(text, Marker)
        tail0 == SubSeq(text, idx,
                        IF idx + TailLen - 1 < Len(text)
                        THEN idx + TailLen - 1 ELSE Len(text))
        tail1 == Strip(RemoveBoilerplate(tail0))
        tail2 == StripChars(tail1, TitlePunct)
    IN  IF idx = 0 THEN None
        ELSE IF Len(tail2) >= MinTitleLen THEN Prefix(tail2, MaxTitleLen)
        ELSE None

\* The part of extract_title_from_pdf after the page text was read.
TitleFromText(raw) ==
    LET text == JoinSplit(raw)
        chosen == ChooseCandidate(FindCandidates(text))
    IN  IF text = <<>> THEN None
        ELSE IF chosen # None THEN chosen
        ELSE MarkerFallback(text)

\* extract_title_from_pdf: a PDF that pdfplumber cannot open or read, or
\* that has no page, gives None.
extract_title_from_pdf(status, raw) ==
    IF status # "ok" THEN None ELSE TitleFromText(raw)

\* A run of n copies of the character c.
Rep(c, n) == [i \in 1..n |-> c]

\* The pieces page texts are built from.
TextPieces ==
    { <<RParen>>, <<LParen>>, <<32>>, <<10, 9>>, <<58>>, <<45>>,
      <<97, 98>>,                                    \* "ab"
      <<97, 98, 99, 100, 101, 102, 103, 104>>,       \* "abcdefgh"
      <<1576>>,                                      \* one Arabic letter
      <<1575, 1604, 1589, 1576, 1585>>,              \* an Arabic word, 5 letters
      Marker,
      <<32>> \o Word2 \o <<32>> \o Word3 \o <<32>> \o Word4,
      <<RParen>> \o <<97, 98, 99, 100, 101, 102, 103, 104>> \o <<LParen>>,
      <<RParen, 32, 1576, 32, LParen>>,
      Rep(97, MaxTitleLen + 5) }

RECURSIVE TextsUpTo(_)
TextsUpTo(n) ==
    IF n = 0 THEN {<<>>}
    ELSE LET shorter == TextsUpTo(n - 1)
         IN  shorter \cup {s \o piece : s \in shorter, piece \in TextPieces}

TitleInit ==
    /\ \/ pdf_status = "ok" /\ page_text \in TextsUpTo(MaxTokens)
       \/ pdf_status \in {"unreadable", "no_pages"} /\ page_text = <<>>
    /\ title_out = None
    /\ title_pc = "call"
    /\ SanIdle
    /\ ListingIdle
    /\ CoverIdle
    /\ MainIdle

\* title = extract_title_from_pdf(tmp_pdf)
ExtractTitle ==
    /\ title_pc = "call"
    /\ title_out' = extract_title_from_pdf(pdf_status, page_text)
    /\ title_pc' = "done"
    /\ UNCHANGED <<pdf_status, page_text, san_vars, listing_vars, cover_vars, main_vars>>

TitleNext == ExtractTitle

SpecTitle == TitleInit /\ [][TitleNext]_vars

\* The candidates of the page text of the PDF at hand.
Candidates == FindCandidates(JoinSplit(page_text))

MinOf(S) == CHOOSE i \in S : \A j \in S : i <= j

\* C3 (as stated): with one or more candidates, the title is the first
\* candidate holding an Arabic character; only when no candidate holds one is
\* it the first candidate of length >= 8.
C3_Original ==
    title_pc = "done" /\ pdf_status = "ok" /\ Candidates # <<>> =>
        LET ar == {i \in 1..Len(Candidates) : contains_arabic(Candidates[i])}
            lg == {i \in 1..Len(Candidates) :
                      Len(Strip(Candidates[i])) >= MinTitleLen}
        IN  /\ ar # {} => title_out = Strip(Candidates[MinOf(ar)])
            /\ ar = {} /\ lg # {} => title_out = Strip(Candidates[MinOf(lg)])

\* C3 (amended): with one or more candidates, the title is the first
\* candidate, in text order, that holds an Arabic character or whose length
\* (surrounding whitespace stripped) is >= 8, whichever comes first.
C3_FirstQualifying ==
    title_pc = "done" /\ pdf_status = "ok" /\ Candidates # <<>> =>
        LET ok == {i \in 1..Len(Candidates) :
                      \/ contains_arabic(Candidates[i])
                      \/ Len(Strip(Candidates[i])) >= MinTitleLen}
        IN  ok # {} => title_out = Strip(Candidates[MinOf(ok)])

\* C3 witness: a candidate of length >= 8 without Arabic precedes a candidate
\* with Arabic, and the first was returned.
C3_Witness ==
    /\ title_pc = "done"
    /\ \E i, j \in 1..Len(Candidates) :
          /\ i < j
          /\ ~contains_arabic(Candidates[i])
          /\ Len(Strip(Candidates[i])) >= MinTitleLen
          /\ contains_arabic(Candidates[j])
          /\ title_out = Strip(Candidates[i])
          /\ title_out # Strip(Candidates[j])

\* The title C4 describes: built from the (up to 300) characters that follow
\* the marker, the rest of the header phrase removed when it comes
\* immediately after the marker.
C4_ClaimedTitle(text) ==
    LET idx   == Find(text, Marker)
        from  == idx + Len(Marker)
        after == SubSeq(text, from,
                        IF from + TailLen - 1 < Len(text)
                        THEN from + TailLen - 1 ELSE Len(text))
        hdr   == MatchBoilerplate(text, idx)
        rest  == IF hdr > 0 THEN SubSeq(after, hdr - from + 2, Len(after))
                 ELSE after
        tail  == StripChars(Strip(rest), TitlePunct)
    IN  IF Len(tail) >= MinTitleLen THEN Prefix(tail, MaxTitleLen) ELSE None

\* C4: with no reversed-parenthesis pattern and the marker in the text, the
\* result is built only from the characters that follow the marker; it never
\* begins with the marker word and never exceeds 120 characters.
C4_FallbackAfterMarker ==
    /\ title_pc = "done"
    /\ pdf_status = "ok"
    /\ Candidates = <<>>
    /\ Find(JoinSplit(page_text), Marker) # 0
    =>  /\ title_out = C4_ClaimedTitle(JoinSplit(page_text))
        /\ title_out # None =>
              /\ ~OccursAt(title_out, Marker, 1)
              /\ Len(title_out) <= MaxTitleLen

(***************************************************************************)
(* parse_listing_for_year                                                  *)
(***************************************************************************)
\* \d on str: the decimal digits, here ASCII and the two Arabic-Indic blocks.
IsDigit(c) == c \in (48..57) \cup (1632..1641) \cup (1776..1785)

\* int() of one digit
DigitVal(c) ==
    IF c \in 48..57 THEN c - 48
    ELSE IF c \in 1632..1641 THEN c - 1632 ELSE c - 1776

\* int() of a run of digits
RECURSIVE IntOf(_)
IntOf(ds) ==
    IF ds = <<>> THEN 0
    ELSE 10 * IntOf(SubSeq(ds, 1, Len(ds) - 1)) + DigitVal(ds[Len(ds)])

\* str.lower(), and the case folding of re.IGNORECASE, on ASCII letters
LowerChar(c) == IF c \in 65..90 THEN c + 32 ELSE c
Lower(s) == [i \in 1..Len(s) |-> LowerChar(s[i])]

DotPdf == <<46, 112, 100, 102>>      \* ".pdf"
Hyphen == 45

\* href.lower().endswith(".pdf")
EndsWithPdf(href) ==
    Len(href) >= Len(DotPdf)
        /\ SubSeq(Lower(href), Len(href) - Len(DotPdf) + 1, Len(href)) = DotPdf

\* LIST_URL: its scheme and host, and the directory of its path.
ListOrigin ==
    <<104, 116, 116, 112, 115, 58, 47, 47, 97, 119, 113, 97, 102, 46, 103,
      111, 118, 46, 106, 111>>                       \* "https://awqaf.gov.jo"
ListDir == <<47, 65, 82, 47, 80, 97, 103, 101, 115, 47>>      \* "/AR/Pages/"

HasScheme(href) ==
    \/ OccursAt(Lower(href), <<104, 116, 116, 112, 58, 47, 47>>, 1)
    \/ OccursAt(Lower(href), <<104, 116, 116, 112, 115, 58, 47, 47>>, 1)

\* urljoin(LIST_URL, href): an absolute URL stays, a path from the root is
\* put after the origin, a relative path after the directory of LIST_URL.
urljoin(href) ==
    IF HasScheme(href) THEN href
    ELSE IF href # <<>> /\ href[1] = 47 THEN ListOrigin \o href
    ELSE ListOrigin \o ListDir \o href

AllDigits(s, from, to) == \A i \in from..to : i <= Len(s) /\ IsDigit(s[i])

\* $ : the end of the string, or just before a final newline
AtEnd(s, i) == i = Len(s) \/ (i = Len(s) - 1 /\ s[Len(s)] = 10)

\* DATE_RE matched at index p of s with a day of dl and a month of ml digits:
\* (\d{1,2})-(\d{1,2})-(\d{4})\.pdf$ , case-insensitive
DateShapeAt(s, p, dl, ml) ==
    LET h1 == p + dl
        m1 == h1 + 1
        h2 == m1 + ml
        y1 == h2 + 1
        e1 == y1 + 4
    IN  /\ p >= 1
        /\ e1 + Len(DotPdf) - 1 <= Len(s)
        /\ AllDigits(s, p, h1 - 1)
        /\ s[h1] = Hyphen
        /\ AllDigits(s, m1, h2 - 1)
        /\ s[h2] = Hyphen
        /\ AllDigits(s, y1, e1 - 1)
        /\ SubSeq(Lower(s), e1, e1 + Len(DotPdf) - 1) = DotPdf
        /\ AtEnd(s, e1 + Len(DotPdf) - 1)

\* The groups of the match at p; \d{1,2} is greedy, two digits are tried first.
DateGroupsAt(s, p) ==
    LET shapes == {lm \in {1, 2} \X {1, 2} : DateShapeAt(s, p, lm[1], lm[2])}
        lm == CHOOSE x \in shapes :
                  \A o \in shapes :
                      x[1] > o[1] \/ (x[1] = o[1] /\ x[2] >= o[2])
    IN  IF shapes = {} THEN <<>>
        ELSE << IntOf(SubSeq(s, p, p + lm[1] - 1)),
                IntOf(SubSeq(s, p + lm[1] + 1, p + lm[1] + lm[2])),
                IntOf(SubSeq(s, p + lm[1] + lm[2] + 2, p + lm[1] + lm[2] + 5)) >>

\* DATE_RE.search(full): <<d, mth, y>> of the leftmost match, <<>> for no match
DateSearch(full) ==
    LET at == {p \in 1..Len(full) : DateGroupsAt(full, p) # <<>>}
    IN  IF at = {} THEN <<>>
        ELSE DateGroupsAt(full, CHOOSE p \in at : \A q \in at : p <= q)

\* f"{n:02d}" and f"{n:04d}" (n < 100, n < 10000: the groups are 2 and 4 digits)
Pad2(n) == <<48 + ((n \div 10) % 10), 48 + (n % 10)>>
Pad4(n) == <<48 + ((n \div 1000) % 10), 48 + ((n \div 100) % 10)>> \o Pad2(n % 100)

\* date_iso = f"{y:04d}-{mth:02d}-{d:02d}"
DateIso(d, mth, y) == Pad4(y) \o <<Hyphen>> \o Pad2(mth) \o <<Hyphen>> \o Pad2(d)

\* The loop over the <a> elements: links.append((date_iso, full))
RECURSIVE CollectLinks(_, _, _)
CollectLinks(hs, yr, i) ==
    IF i > Len(hs) THEN <<>>
    ELSE LET href == Strip(hs[i])
             full == urljoin(href)
             m    == DateSearch(full)
             rest == CollectLinks(hs, yr, i + 1)
         IN  IF ~EndsWithPdf(href) THEN rest
             ELSE IF m = <<>> THEN rest
             ELSE IF m[3] # yr THEN rest
             ELSE << <<DateIso(m[1], m[2], m[3]), full>> >> \o rest

\* Faulty variant: a later link of the same date replaces the earlier one.
Dedup_KeepLast(links) ==
    LET keep == {i \in 1..Len(links) :
                    \A j \in 1..Len(links) : links[j][1] = links[i][1] => j <= i}
    IN  [k \in 1..Cardinality(keep) |->
            links[CHOOSE i \in keep : Cardinality({j \in keep : j <= i}) = k]]

\* dedup.setdefault(date_iso, url): the first link of each date, in order
Dedup(links) ==
    LET keep == {i \in 1..Len(links) :
                    \A j \in 1..(i - 1) : links[j][1] # links[i][1]}
    IN  [k \in 1..Cardinality(keep) |->
            links[CHOOSE i \in keep : Cardinality({j \in keep : j <= i}) = k]]

\* str < str : code point by code point, a proper prefix is smaller
RECURSIVE StrLess(_, _)
StrLess(a, b) ==
    IF b = <<>> THEN FALSE
    ELSE IF a = <<>> THEN TRUE
    ELSE IF a[1] # b[1] THEN a[1] < b[1]
    ELSE StrLess(Tail(a), Tail(b))

\* sorted(dedup.items(), key=lambda x: x[0]); the keys of a dict are distinct
SortByDate(items) ==
    [k \in 1..Len(items) |->
        items[CHOOSE i \in 1..Len(items) :
                  Cardinality({j \in 1..Len(items) :
                                  StrLess(items[j][1], items[i][1])}) = k - 1]]

parse_listing_for_year(hs, yr) == SortByDate(Dedup(CollectLinks(hs, yr, 1)))

\* The href values listing pages are built from:
\*   'a/x_5-1-2025.pdf'
\*   'b/y_5-1-2025.pdf'
\*   'c/z_12-3-2024.pdf'
\*   '/d/05-01-2025.PDF'
\*   'https://x.jo/k_45-13-2025.pdf'
\*   'nav.html'
\*   ' e_3-2-2025.pdf '
\*   'f123-11-2025.pdf'
\*   'g_31-2-2025.pdf'
\*   '2025-1-5.pdf'
\*   'i_0-0-2025.pdf'
\*   'j_\\u0665-\\u0661-\\u0662\\u0660\\u0662\\u0665.pdf'
HrefPool ==
    {
      <<97, 47, 120, 95, 53, 45, 49, 45, 50, 48, 50, 53, 46, 112, 100, 102>>,
      <<98, 47, 121, 95, 53, 45, 49, 45, 50, 48, 50, 53, 46, 112, 100, 102>>,
      <<99, 47, 122, 95, 49, 50, 45, 51, 45, 50, 48, 50, 52, 46, 112, 100, 102>>,
      <<47, 100, 47, 48, 53, 45, 48, 49, 45, 50, 48, 50, 53, 46, 80, 68, 70>>,
      <<104, 116, 116, 112, 115, 58, 47, 47, 120, 46, 106, 111, 47, 107, 95, 52, 53, 45, 49, 51, 45, 50, 48, 50, 53, 46, 112, 100, 102>>,
      <<110, 97, 118, 46, 104, 116, 109, 108>>,
      <<32, 101, 95, 51, 45, 50, 45, 50, 48, 50, 53, 46, 112, 100, 102, 32>>,
      <<102, 49, 50, 51, 45, 49, 49, 45, 50, 48, 50, 53, 46, 112, 100, 102>>,
      <<103, 95, 51, 49, 45, 50, 45, 50, 48, 50, 53, 46, 112, 100, 102>>,
      <<50, 48, 50, 53, 45, 49, 45, 53, 46, 112, 100, 102>>,
      <<105, 95, 48, 45, 48, 45, 50, 48, 50, 53, 46, 112, 100, 102>>,
      <<106, 95, 1637, 45, 1633, 45, 1634, 1632, 1634, 1637, 46, 112, 100, 102>> }

RECURSIVE ListingsUpTo(_)
ListingsUpTo(n) ==
    IF n = 0 THEN {<<>>}
    ELSE LET shorter == ListingsUpTo(n - 1)
         IN  shorter \cup {Append(l, h) : l \in shorter, h \in HrefPool}

ListingInit ==
    /\ hrefs \in ListingsUpTo(MaxLinks)
    /\ year \in {2024, 2025}
    /\ pairs = <<>>
    /\ listing_pc = "call"
    /\ SanIdle
    /\ TitleIdle
    /\ CoverIdle
    /\ MainIdle

\* pairs = parse_listing_for_year(resp.text, year)
ParseListing ==
    /\ listing_pc = "call"
    /\ pairs' = parse_listing_for_year(hrefs, year)
    /\ listing_pc' = "done"
    /\ UNCHANGED <<hrefs, year, san_vars, title_vars, cover_vars, main_vars>>

ListingNext == ParseListing

SpecListing == ListingInit /\ [][ListingNext]_vars

\* The date a link's D-M-YYYY.pdf suffix encodes, read from the end of the
\* href: <<y, m, d>>, or <<>> when the href does not end in such a suffix.
SuffixDate(h) ==
    LET s  == Strip(h)
        n  == Len(s)
        y1 == n - 7                      \* the four digits of the year
        ml == IF n >= 11 /\ IsDigit(s[n - 10]) THEN 2 ELSE 1
        m1 == n - 8 - ml
        dl == IF m1 >= 3 /\ IsDigit(s[m1 - 3]) THEN 2 ELSE 1
        d1 == m1 - 1 - dl
    IN  IF /\ n >= 12
           /\ Lower(SubSeq(s, n - 3, n)) = DotPdf
           /\ \A i \in y1..(n - 4) : IsDigit(s[i])
           /\ s[n - 8] = Hyphen
           /\ \A i \in m1..(n - 9) : IsDigit(s[i])
           /\ s[m1 - 1] = Hyphen
           /\ d1 >= 1
           /\ \A i \in d1..(m1 - 2) : IsDigit(s[i])
        THEN << IntOf(SubSeq(s, y1, n - 4)), IntOf(SubSeq(s, m1, n - 9)),
                IntOf(SubSeq(s, d1, m1 - 2)) >>
        ELSE <<>>

\* The date a YYYY-MM-DD string denotes, as <<y, m, d>>.
IsoDate(iso) ==
    << IntOf(SubSeq(iso, 1, 4)), IntOf(SubSeq(iso, 6, 7)), IntOf(SubSeq(iso, 9, 10)) >>

IsIsoForm(iso) ==
    /\ Len(iso) = 10
    /\ \A i \in {1, 2, 3, 4, 6, 7, 9, 10} : iso[i] \in 48..57
    /\ iso[5] = Hyphen /\ iso[8] = Hyphen

DateBefore(a, b) ==
    a[1] * 10000 + a[2] * 100 + a[3] < b[1] * 10000 + b[2] * 100 + b[3]

\* The links of the page that count: a D-M-YYYY.pdf suffix of the target year.
MatchingLinks ==
    {i \in 1..Len(hrefs) : SuffixDate(hrefs[i]) # <<>> /\ SuffixDate(hrefs[i])[1] = year}

\* ... and, of those, the first of each date in document order.
FirstOfDate ==
    {i \in MatchingLinks :
        \A j \in MatchingLinks : SuffixDate(hrefs[j]) = SuffixDate(hrefs[i]) => i <= j}

\* C1: the result holds exactly one (date, absolute URL) pair per distinct date
\* among the links with a D-M-YYYY.pdf suffix of the target year, the URL
\* being that of the first such link in document order; other links
\* contribute nothing; and the result is sorted ascending by date.
C1_ListingExact ==
    listing_pc = "done" =>
        /\ Len(pairs) = Cardinality(FirstOfDate)
        /\ \A i \in FirstOfDate :
              \E k \in 1..Len(pairs) :
                  /\ IsIsoForm(pairs[k][1])
                  /\ IsoDate(pairs[k][1]) = SuffixDate(hrefs[i])
                  /\ pairs[k][2] = urljoin(Strip(hrefs[i]))
        /\ \A k \in 1..(Len(pairs) - 1) :
              DateBefore(IsoDate(pairs[k][1]), IsoDate(pairs[k + 1][1]))

\* C1 witness: a page with two links of one date and a link of an earlier
\* date after them was parsed into two entries.
C1_Witness ==
    /\ listing_pc = "done"
    /\ Len(pairs) = 2
    /\ \E i, j, k \in MatchingLinks :
          /\ i < j /\ j < k
          /\ SuffixDate(hrefs[i]) = SuffixDate(hrefs[j])
          /\ hrefs[i] # hrefs[j]
          /\ DateBefore(SuffixDate(hrefs[k]), SuffixDate(hrefs[i]))
          /\ pairs[2][2] = urljoin(Strip(hrefs[i]))

IsLeap(y) == (y % 4 = 0 /\ y % 100 # 0) \/ y % 400 = 0

DaysIn(m, y) ==
    IF m = 2 THEN (IF IsLeap(y) THEN 29 ELSE 28)
    ELSE IF m \in {4, 6, 9, 11} THEN 30 ELSE 31

\* C10: every date of the result is a calendar date of the target year:
\* a month from 1 to 12 and a day from 1 to the number of days of that month.
C10_CalendarDates ==
    listing_pc = "done" =>
        \A k \in 1..Len(pairs) :
            LET dt == IsoDate(pairs[k][1])
            IN  /\ IsIsoForm(pairs[k][1])
                /\ dt[1] = year
                /\ dt[2] \in 1..12
                /\ dt[3] \in 1..DaysIn(dt[2], dt[1])

(***************************************************************************)
(* make_cover_pdf                                                          *)
(***************************************************************************)
\* width, height = LETTER; the cursor starts at height - 72
PageHeight == 792
TopMargin == 72
BottomMargin == 72
LineH == 14
FieldGap == 6
PlainWidth == 95
ArabicWidth == 70
\* len(wrap_text(note, width=110)): the closing note fills three lines
NoteLines == 3

Country == <<74, 111, 114, 100, 97, 110>>                        \* "Jordan"
\* "Ministry of Awqaf and Islamic Affairs and Holy Places (Jordan)"
AuthorityEn ==
    <<77, 105, 110, 105, 115, 116, 114, 121, 32, 111, 102, 32, 65, 119,
      113, 97, 102, 32, 97, 110, 100, 32, 73, 115, 108, 97, 109, 105, 99,
      32, 65, 102, 102, 97, 105, 114, 115, 32, 97, 110, 100, 32, 72, 111,
      108, 121, 32, 80, 108, 97, 99, 101, 115, 32, 40, 74, 111, 114, 100,
      97, 110, 41>>
\* The authority's name in Arabic, 50 characters
AuthorityAr ==
    <<1608, 1586, 1575, 1585, 1577, 32, 1575, 1604, 1571, 1608, 1602, 1575,
      1601, 32, 1608, 1575, 1604, 1588, 1572, 1608, 1606, 32, 1608, 1575,
      1604, 1605, 1602, 1583, 1587, 1575, 1578, 32, 1575, 1604, 1573, 1587,
      1604, 1575, 1605, 1610, 1577, 32, 45, 32, 1575, 1604, 1571, 1585,
      1583, 1606>>
SlashSep == <<32, 47, 32>>                                       \* " / "
\* "[Arabic text omitted: font not available]"
Placeholder ==
    <<91, 65, 114, 97, 98, 105, 99, 32, 116, 101, 120, 116, 32, 111, 109,
      105, 116, 116, 101, 100, 58, 32, 102, 111, 110, 116, 32, 110, 111,
      116, 32, 97, 118, 97, 105, 108, 97, 98, 108, 101, 93>>
\* A date_iso and a retrieved_at, as main passes them: "2025-01-05",
\* "2025-01-05T06:00:00Z"
SermonDate == <<50, 48, 50, 53, 45, 48, 49, 45, 48, 53>>
RetrievedAt ==
    <<50, 48, 50, 53, 45, 48, 49, 45, 48, 53, 84, 48, 54, 58, 48, 48, 58,
      48, 48, 90>>

\* The fields, in the order of the list `fields`.
FCountry == 1
FIssuing == 2
FDate == 3
FTitle == 4
FUrl == 5
FRetrieved == 6
NumFields == 6

\* issuing_value = f"{AUTHORITY_EN} / {AUTHORITY_AR}", and the other values
FieldValue(k) ==
    CASE k = FCountry -> Country
      [] k = FIssuing -> AuthorityEn \o SlashSep \o AuthorityAr
      [] k = FDate -> SermonDate
      [] k = FTitle -> Rep(cov_title.ch, cov_title.n)
      [] k = FUrl -> Rep(cov_url.ch, cov_url.n)
      [] k = FRetrieved -> RetrievedAt

\* arabic_font_name: "Amiri" when the font file exists and the tools are there
ArabicFontName == font_exists /\ have_tools

\* v.split(" / ", 1)
SplitOnce(v, sep) ==
    LET at == Find(v, sep)
    IN  <<SubSeq(v, 1, at - 1), SubSeq(v, at + Len(sep), Len(v))>>

\* wrap_text(s, width): [""] for the empty string; a text of one word, or one
\* that fits in a line, is cut into lines of width characters.
wrap_text(s, width) ==
    IF s = <<>> THEN << <<>> >>
    ELSE [i \in 1..((Len(s) + width - 1) \div width) |->
             [j \in 1..(IF i * width < Len(s) THEN width
                        ELSE Len(s) - (i - 1) * width) |->
                 s[(i - 1) * width + j]]]

\* shape_rtl_arabic(s): s itself without the tools, else reshaped and reordered
shape_rtl_arabic(s) == [shaped |-> have_tools, arabic |-> contains_arabic(s)]

\* What one drawString / drawRightString call puts on the canvas.
Drawn(field, kind, font, align, content, arabic) ==
    [page |-> cov_page, y |-> cov_y, field |-> field, kind |-> kind,
     font |-> font, align |-> align, content |-> content, arabic |-> arabic]

\* y -= line_h; if y < 72: c.showPage(); y = height - 72
AfterLine ==
    IF cov_y - LineH < BottomMargin
    THEN /\ cov_page' = cov_page + 1
         /\ cov_y' = PageHeight - TopMargin
    ELSE /\ cov_page' = cov_page
         /\ cov_y' = cov_y - LineH

\* if arabic_font_name and contains_arabic(ar_part): the Arabic lines follow
AfterEnglish(ar_part) ==
    IF ArabicFontName /\ contains_arabic(ar_part) THEN "ar" ELSE "endfield"

\* Faulty variant: an Arabic value is drawn as it is when there is no Arabic font.
ReplacedByPlaceholder_Never(v) == FALSE

\* if not arabic_font_name and contains_arabic(v): v = "[Arabic text omitted ...]"
ReplacedByPlaceholder(v) == ~ArabicFontName /\ contains_arabic(v)

CoverInit ==
    /\ font_exists \in BOOLEAN
    /\ have_tools \in BOOLEAN
    /\ cov_title \in [ch : {97, 1576}, n : {8, MaxTitleLen}]
    /\ cov_url \in [ch : {97, 1576}, n : {PlainWidth * l : l \in 1..MaxUrlLines}]
    /\ cov_pc = "begin"
    /\ cov_k = 0
    /\ cov_i = 0
    /\ cov_sub = FALSE
    /\ cov_y = PageHeight - TopMargin
    /\ cov_page = 1
    /\ cov_drawn = <<>>
    /\ SanIdle
    /\ TitleIdle
    /\ ListingIdle
    /\ MainIdle

cover_others == <<san_vars, title_vars, listing_vars, cover_in, main_vars>>

\* c.drawString(left, y, "Friday Sermon (Khutbah) | ..."); y -= 2 * line_h
DrawBanner ==
    /\ cov_pc = "begin"
    /\ cov_drawn' = Append(cov_drawn,
           Drawn(0, "banner", "Helvetica-Bold", "left", "text", FALSE))
    /\ cov_y' = cov_y - 2 * LineH
    /\ cov_k' = 1
    /\ cov_pc' = "label"
    /\ UNCHANGED <<cov_i, cov_sub, cov_page, cover_others>>

\* c.drawString(left, y, f"{k}:") and the choice of how the value is drawn
DrawLabel ==
    /\ cov_pc = "label"
    /\ cov_drawn' = Append(cov_drawn,
           Drawn(cov_k, "label", "Helvetica-Bold", "left", "text", FALSE))
    /\ cov_i' = 1
    /\ LET v == FieldValue(cov_k)
       IN  IF cov_k = FIssuing /\ Find(v, SlashSep) # 0
           THEN cov_pc' = "en" /\ cov_sub' = FALSE
           ELSE IF ArabicFontName /\ contains_arabic(v)
           THEN cov_pc' = "rtl" /\ cov_sub' = FALSE
           ELSE cov_pc' = "plain" /\ cov_sub' = ReplacedByPlaceholder(v)
    /\ UNCHANGED <<cov_k, cov_y, cov_page, cover_others>>

\* for line in wrap_text(en_part, width=95): c.drawString(value_x, y, line)
DrawIssuingEnglish ==
    /\ cov_pc = "en"
    /\ LET parts == SplitOnce(FieldValue(cov_k), SlashSep)
           lines == wrap_text(parts[1], PlainWidth)
       IN  /\ cov_drawn' = Append(cov_drawn,
                  Drawn(cov_k, "en_part", "Helvetica", "left", "text",
                        contains_arabic(lines[cov_i])))
           /\ IF cov_i < Len(lines)
              THEN cov_i' = cov_i + 1 /\ cov_pc' = "en"
              ELSE cov_i' = 1 /\ cov_pc' = AfterEnglish(parts[2])
    /\ AfterLine
    /\ UNCHANGED <<cov_k, cov_sub, cover_others>>

\* for line in wrap_text(ar_part, width=70):
\*     c.drawRightString(value_right_x, y, shape_rtl_arabic(line))
DrawIssuingArabic ==
    /\ cov_pc = "ar"
    /\ LET parts == SplitOnce(FieldValue(cov_k), SlashSep)
           lines == wrap_text(parts[2], ArabicWidth)
           shown == shape_rtl_arabic(lines[cov_i])
       IN  /\ cov_drawn' = Append(cov_drawn,
                  Drawn(cov_k, "ar_part",
                        IF ArabicFontName THEN "Amiri" ELSE "Helvetica", "right",
                        IF shown.shaped THEN "shaped" ELSE "text", shown.arabic))
           /\ IF cov_i < Len(lines)
              THEN cov_i' = cov_i + 1 /\ cov_pc' = "ar"
              ELSE cov_i' = 1 /\ cov_pc' = "endfield"
    /\ AfterLine
    /\ UNCHANGED <<cov_k, cov_sub, cover_others>>

\* The general case with the Arabic font: right-aligned, shaped lines
DrawArabicValue ==
    /\ cov_pc = "rtl"
    /\ LET lines == wrap_text(FieldValue(cov_k), ArabicWidth)
           shown == shape_rtl_arabic(lines[cov_i])
       IN  /\ cov_drawn' = Append(cov_drawn,
                  Drawn(cov_k, "value", "Amiri", "right",
                        IF shown.shaped THEN "shaped" ELSE "text", shown.arabic))
           /\ IF cov_i < Len(lines)
              THEN cov_i' = cov_i + 1 /\ cov_pc' = "rtl"
              ELSE cov_i' = 1 /\ cov_pc' = "endfield"
    /\ AfterLine
    /\ UNCHANGED <<cov_k, cov_sub, cover_others>>

\* The general case without: the value, or the placeholder, in Helvetica
DrawPlainValue ==
    /\ cov_pc = "plain"
    /\ LET v == IF cov_sub THEN Placeholder ELSE FieldValue(cov_k)
           lines == wrap_text(v, PlainWidth)
       IN  /\ cov_drawn' = Append(cov_drawn,
                  Drawn(cov_k, "value", "Helvetica", "left",
                        IF cov_sub THEN "placeholder" ELSE "text",
                        contains_arabic(lines[cov_i])))
           /\ IF cov_i < Len(lines)
              THEN cov_i' = cov_i + 1 /\ cov_pc' = "plain"
              ELSE cov_i' = 1 /\ cov_pc' = "endfield"
    /\ AfterLine
    /\ UNCHANGED <<cov_k, cov_sub, cover_others>>

\* y -= 6, and the next field or, after the last, the closing note
EndField ==
    /\ cov_pc = "endfield"
    /\ cov_y' = cov_y - FieldGap
    /\ IF cov_k < NumFields
       THEN cov_k' = cov_k + 1 /\ cov_pc' = "label"
       ELSE cov_k' = NumFields + 1 /\ cov_pc' = "note"
    /\ cov_i' = 1
    /\ UNCHANGED <<cov_sub, cov_page, cov_drawn, cover_others>>

\* for line in wrap_text(note, width=110): c.drawString(left, y, line); y -= line_h
DrawNoteLine ==
    /\ cov_pc = "note"
    /\ cov_drawn' = Append(cov_drawn,
           Drawn(cov_k, "note", "Helvetica-Oblique", "left", "text", FALSE))
    /\ cov_y' = cov_y - LineH
    /\ IF cov_i < NoteLines
       THEN cov_i' = cov_i + 1 /\ cov_pc' = "note"
       ELSE cov_i' = 1 /\ cov_pc' = "save"
    /\ UNCHANGED <<cov_k, cov_sub, cov_page, cover_others>>

\* c.showPage(); c.save()
SaveCover ==
    /\ cov_pc = "save"
    /\ cov_pc' = "saved"
    /\ UNCHANGED <<cov_k, cov_i, cov_sub, cov_y, cov_page, cov_drawn, cover_others>>

CoverNext ==
    \/ DrawBanner
    \/ DrawLabel
    \/ DrawIssuingEnglish
    \/ DrawIssuingArabic
    \/ DrawArabicValue
    \/ DrawPlainValue
    \/ EndField
    \/ DrawNoteLine
    \/ SaveCover

SpecCover == CoverInit /\ [][CoverNext]_vars

\* The draws of the value of field k.
ValueDraws(k) ==
    {i \in 1..Len(cov_drawn) :
        cov_drawn[i].field = k /\ cov_drawn[i].kind \notin {"label", "banner", "note"}}

\* C6 (as stated): without right-to-left support, every field whose value
\* holds right-to-left characters, the right-to-left half of the issuing
\* authority included, has a placeholder drawn in its place; the content is
\* neither omitted nor drawn unshaped in the standard font.
C6_Original ==
    cov_pc = "saved" /\ ~ArabicFontName =>
        /\ \A k \in 1..NumFields :
              contains_arabic(FieldValue(k)) =>
                  \E i \in ValueDraws(k) : cov_drawn[i].content = "placeholder"
        /\ \A i \in 1..Len(cov_drawn) : ~cov_drawn[i].arabic

\* C6 (amended): without right-to-left support, every field other than the
\* issuing authority whose value holds right-to-left characters has the
\* placeholder, and nothing else, drawn as its value; of the issuing
\* authority the English half is drawn and the right-to-left half is omitted
\* without a placeholder; and no Arabic text is drawn at all.
C6_PlaceholderOrOmitted ==
    cov_pc = "saved" /\ ~ArabicFontName =>
        /\ \A k \in (1..NumFields) \ {FIssuing} :
              contains_arabic(FieldValue(k)) =>
                  /\ ValueDraws(k) # {}
                  /\ \A i \in ValueDraws(k) :
                        /\ cov_drawn[i].content = "placeholder"
                        /\ cov_drawn[i].font = "Helvetica"
        /\ ValueDraws(FIssuing) # {}
        /\ \A i \in ValueDraws(FIssuing) :
              /\ cov_drawn[i].kind = "en_part"
              /\ cov_drawn[i].content = "text"
        /\ \A i \in 1..Len(cov_drawn) : ~cov_drawn[i].arabic

\* C6 witness: the font file is there but the shaping library is not, the
\* title is Arabic, and the cover was saved with the placeholder as its title.
C6_Witness ==
    /\ cov_pc = "saved"
    /\ font_exists /\ ~have_tools
    /\ cov_title.ch = 1576
    /\ \E i \in ValueDraws(FTitle) : cov_drawn[i].content = "placeholder"

\* C8: every text item (label, value line, closing-note line) is drawn with
\* the cursor at or above the bottom margin.
C8_DrawnAboveMargin ==
    \A i \in 1..Len(cov_drawn) : cov_drawn[i].y >= BottomMargin

(***************************************************************************)
(* merge_cover_with_original                                               *)
(***************************************************************************)
\* for p in reader.pages: writer.add_page(p)
RECURSIVE AddPages(_, _, _)
AddPages(writer, pages, i) ==
    IF i > Len(pages) THEN writer
    ELSE AddPages(Append(writer, pages[i]), pages, i + 1)

\* Faulty variant: the original's pages are added before the cover's.
MergedPages_OriginalFirst(cover, original) ==
    AddPages(AddPages(<<>>, original, 1), cover, 1)

\* The pages written to out_pdf: the cover's, then the original's.
MergedPages(cover, original) ==
    AddPages(AddPages(<<>>, cover, 1), original, 1)

\* return len(reader_cover.pages) + len(reader_orig.pages)
merge_cover_with_original(cover, original) ==
    [written |-> MergedPages(cover, original),
     total |-> Len(cover) + Len(original)]

(***************************************************************************)
(* main: the loop over the listing's entries                               *)
(***************************************************************************)
\* Path(pdf_url).name: what follows the last slash
PathName(url) ==
    LET slashes == {i \in 1..Len(url) : url[i] = 47}
    IN  IF slashes = {} THEN url
        ELSE SubSeq(url, (CHOOSE i \in slashes : \A j \in slashes : j <= i) + 1,
                    Len(url))

\* re.sub(DATE_RE, "", base): the date suffix, which ends the string, is cut
RemoveDateSuffix(base) ==
    LET at == {p \in 1..Len(base) : DateGroupsAt(base, p) # <<>>}
    IN  IF at = {} THEN base
        ELSE SubSeq(base, 1, (CHOOSE p \in at : \A q \in at : p <= q) - 1)
                 \o (IF base[Len(base)] = 10 THEN <<10>> ELSE <<>>)

\* base.replace("_", " ")
UnderscoresToSpaces(s) == [i \in 1..Len(s) |-> IF s[i] = 95 THEN 32 ELSE s[i]]

\* The title when the PDF gave none: from the file name of the URL
FallbackTitle(pdf_url) ==
    LET base == Strip(UnderscoresToSpaces(RemoveDateSuffix(PathName(pdf_url))))
    IN  IF base = <<>> THEN Untitled ELSE base

\* f"{date_iso} - {title_clean}.pdf", under pdfs/
OutName(date_iso, title_clean) ==
    <<112, 100, 102, 115, 47>> \o date_iso \o <<32, 45, 32>> \o title_clean \o DotPdf

\* What a download can put in original_pdfs/: a PDF whose first page reads
\* ") <Arabic letter> (" , one without text, one without pages, and a file
\* that is no PDF.
Downloads ==
    { [status |-> "ok", text |-> <<RParen, 32, 1576, 32, LParen>>,
       pages |-> << <<"original", 1>>, <<"original", 2>> >>],
      [status |-> "ok", text |-> <<>>, pages |-> << <<"original", 1>> >>],
      [status |-> "no_pages", text |-> <<>>, pages |-> <<>>],
      [status |-> "unreadable", text |-> <<>>, pages |-> <<>>] }

\* The links the listing page of a run of main is built from.
MainHrefs ==
    { <<97, 47, 120, 95, 53, 45, 49, 45, 50, 48, 50, 53, 46, 112, 100, 102>>,
      <<98, 47, 121, 95, 53, 45, 49, 45, 50, 48, 50, 53, 46, 112, 100, 102>>,
      <<32, 101, 95, 51, 45, 50, 45, 50, 48, 50, 53, 46, 112, 100, 102, 32>>,
      <<47, 49, 45, 49, 45, 50, 48, 50, 53, 46, 112, 100, 102>> }

RECURSIVE MainListingsUpTo(_)
MainListingsUpTo(n) ==
    IF n = 0 THEN {<<>>}
    ELSE LET shorter == MainListingsUpTo(n - 1)
         IN  shorter \cup {Append(l, h) : l \in shorter, h \in MainHrefs}

MainInit ==
    /\ hrefs \in MainListingsUpTo(MaxEntries)
    /\ year = 2025
    /\ pairs = <<>>
    /\ listing_pc = "idle"
    /\ m_pc = "parse"
    /\ m_i = 0
    /\ m_doc = NoDoc
    /\ m_title = None
    /\ m_title_clean = None
    /\ m_cover = <<>>
    /\ m_out = <<>>
    /\ m_total = 0
    /\ manifest_rows = <<>>
    /\ manifest_csv = None
    /\ SanIdle
    /\ TitleIdle
    /\ CoverIdle

main_others == <<san_vars, title_vars, cover_vars, hrefs, year, listing_pc>>

\* pairs = parse_listing_for_year(resp.text, year); manifest_rows = []
MainParse ==
    /\ m_pc = "parse"
    /\ pairs' = parse_listing_for_year(hrefs, year)
    /\ m_i' = 1
    /\ m_pc' = "loop"
    /\ UNCHANGED <<m_doc, m_title, m_title_clean, m_cover, m_out, m_total,
                   manifest_rows, manifest_csv, main_others>>

\* for date_iso, pdf_url in pairs: download_file(...) stores the response
DownloadOk ==
    /\ m_pc = "loop"
    /\ m_i <= Len(pairs)
    /\ \E d \in Downloads : m_doc' = d
    /\ m_pc' = "title"
    /\ UNCHANGED <<pairs, m_i, m_title, m_title_clean, m_cover, m_out, m_total,
                   manifest_rows, manifest_csv, main_others>>

\* download_file: session.get or r.raise_for_status() raises; main has no
\* handler, the exception ends the run.
DownloadRaises ==
    /\ m_pc = "loop"
    /\ m_i <= Len(pairs)
    /\ m_pc' = "raised"
    /\ UNCHANGED <<pairs, m_i, m_doc, m_title, m_title_clean, m_cover, m_out,
                   m_total, manifest_rows, manifest_csv, main_others>>

\* title = extract_title_from_pdf(tmp_pdf), the fallback, title_clean
MakeTitle ==
    /\ m_pc = "title"
    /\ LET found == extract_title_from_pdf(m_doc.status, m_doc.text)
           title == IF found = None THEN FallbackTitle(pairs[m_i][2]) ELSE found
       IN  /\ m_title' = title
           /\ m_title_clean' = sanitize_filename_component(title, DefaultMaxLen)
    /\ m_pc' = "cover"
    /\ UNCHANGED <<pairs, m_i, m_doc, m_cover, m_out, m_total,
                   manifest_rows, manifest_csv, main_others>>

\* make_cover_pdf(cover_pdf, ...) writes a cover of one or more pages
CoverOk ==
    /\ m_pc = "cover"
    /\ \E n \in 1..MaxCoverPages : m_cover' = [i \in 1..n |-> <<"cover", i>>]
    /\ m_pc' = "merge"
    /\ UNCHANGED <<pairs, m_i, m_doc, m_title, m_title_clean, m_out, m_total,
                   manifest_rows, manifest_csv, main_others>>

\* make_cover_pdf raises (the cover cannot be written, the font file is not
\* a font); main has no handler.
CoverRaises ==
    /\ m_pc = "cover"
    /\ m_pc' = "raised"
    /\ UNCHANGED <<pairs, m_i, m_doc, m_title, m_title_clean, m_cover, m_out,
                   m_total, manifest_rows, manifest_csv, main_others>>

\* total_pages = merge_cover_with_original(cover_pdf, tmp_pdf, out_pdf) and
\* manifest_rows.append({...})
MergeOk ==
    /\ m_pc = "merge"
    /\ m_doc.status # "unreadable"
    /\ LET r == merge_cover_with_original(m_cover, m_doc.pages)
       IN  /\ m_out' = r.written
           /\ m_total' = r.total
           /\ manifest_rows' = Append(manifest_rows,
                  [date_gregorian |-> pairs[m_i][1],
                   title_extracted |-> m_title,
                   source_url |-> pairs[m_i][2],
                   local_filename |-> OutName(pairs[m_i][1], m_title_clean),
                   pages_total |-> r.total])
    /\ m_pc' = "merged"
    /\ UNCHANGED <<pairs, m_i, m_doc, m_title, m_title_clean, m_cover,
                   manifest_csv, main_others>>

\* PdfReader raises on a file that is no PDF; main has no handler.
MergeRaises ==
    /\ m_pc = "merge"
    /\ m_doc.status = "unreadable"
    /\ m_pc' = "raised"
    /\ UNCHANGED <<pairs, m_i, m_doc, m_title, m_title_clean, m_cover, m_out,
                   m_total, manifest_rows, manifest_csv, main_others>>

\* print(f"[OK] ..."), and the next entry
NextEntry ==
    /\ m_pc = "merged"
    /\ m_i' = m_i + 1
    /\ m_pc' = "loop"
    /\ UNCHANGED <<pairs, m_doc, m_title, m_title_clean, m_cover, m_out, m_total,
                   manifest_rows, manifest_csv, main_others>>

\* write_manifest_csv(manifest_rows, ...): nothing is written for no rows;
\* then the documentation, and return 0
WriteManifest ==
    /\ m_pc = "loop"
    /\ m_i > Len(pairs)
    /\ manifest_csv' = IF manifest_rows = <<>> THEN None ELSE manifest_rows
    /\ m_pc' = "done"
    /\ UNCHANGED <<pairs, m_i, m_doc, m_title, m_title_clean, m_cover, m_out,
                   m_total, manifest_rows, main_others>>

MainNext ==
    \/ MainParse
    \/ DownloadOk
    \/ DownloadRaises
    \/ MakeTitle
    \/ CoverOk
    \/ CoverRaises
    \/ MergeOk
    \/ MergeRaises
    \/ NextEntry
    \/ WriteManifest

SpecMain == MainInit /\ [][MainNext]_vars

\* C2: a failure while one entry is processed never ends the batch: when the
\* run has ended every entry was taken up and the manifest-writing step was
\* reached, the manifest holding the entries that were merged.
C2_BatchContinues ==
    m_pc \in {"done", "raised"} =>
        /\ m_pc = "done"
        /\ m_i > Len(pairs)
        /\ manifest_rows # <<>> => manifest_csv = manifest_rows

\* C7: the written document's pages are the cover's pages in order followed
\* by the original's pages in order, and the count returned is the sum of the
\* two page counts and the number of pages written.
C7_MergedPages ==
    m_pc = "merged" =>
        /\ \A i \in 1..Len(m_cover) : m_out[i] = m_cover[i]
        /\ \A j \in 1..Len(m_doc.pages) : m_out[Len(m_cover) + j] = m_doc.pages[j]
        /\ m_total = Len(m_cover) + Len(m_doc.pages)
        /\ m_total = Len(m_out)
        /\ manifest_rows[Len(manifest_rows)].pages_total = Len(m_out)

\* C7 witness: a cover of two pages was merged with an original of two pages.
C7_Witness ==
    /\ m_pc = "merged"
    /\ Len(m_cover) = 2
    /\ Len(m_doc.pages) = 2
    /\ m_total = 4

=============================================================================
